---- MODULE Spec2Model ----
(***************************************************************************)
(* A model of DetaORM's three algorithmic cores:                           *)
(*   - the query algebra of detaorm/query.py (And / Or / Query nodes,      *)
(*     _flatten, _and, deta_query),                                        *)
(*   - the page cursor of detaorm/paginator.py and Client.query_items,     *)
(*   - the local replay of update instructions in Base.update, fed by the  *)
(*     merge of Client.update_item.                                        *)
(* Each core has its own specification (SpecQuery, SpecCursor,             *)
(* SpecUpdate); the variables of the other cores keep their initial value. *)
(***************************************************************************)
EXTENDS Integers, Sequences, FiniteSets, TLC

VARIABLES
    debug,      \* Python's __debug__: assert statements are executed
    expr,       \* query core: the expression tree the caller has built
    qpc,        \* query core: "build" or "done"
    out,        \* query core: result of the last deta_query call
    npages,     \* cursor core: number of pages the store holds for the query
    cpc,        \* cursor core: "new" before query_items is called, then "open"
    first_page, \* RawPaginator.__first_page: "coro" or "None"
    coro,       \* the first_page coroutine object: its arguments and state
    current_page, \* RawPaginator.__current_page: a RawPage or NoPage (None)
    held,       \* the RawPage the caller holds, or NoPage
    log,        \* the request bodies posted to the store, in order
    delivered,  \* the pages returned by iteration steps, in order
    exhausted,  \* an iteration step has raised StopAsyncIteration
    step,       \* the last cursor operation and its outcome
    heap,       \* update core: the dict objects, by reference
    recs,       \* update core: the .raw reference of each record made
    work,       \* update core: calls and instructions submitted so far
    upd         \* update core: the last Base.update call and its outcome

qvars == <<expr, qpc, out>>

uvars == <<heap, recs, work, upd>>

cvars == <<npages, cpc, first_page, coro, current_page, held, log, delivered,
           exhausted, step>>

(***************************************************************************)
(* Ordered mappings (Python dict): a sequence of <<key, value>> pairs with *)
(* unique keys, in insertion order.                                        *)
(***************************************************************************)
RECURSIVE DictIndex(_, _, _)
DictIndex(d, k, i) ==
    IF i > Len(d) THEN 0
    ELSE IF d[i][1] = k THEN i
    ELSE DictIndex(d, k, i + 1)

DictHas(d, k) == DictIndex(d, k, 1) # 0

DictGet(d, k) == d[DictIndex(d, k, 1)][2]

\* d[k] = v: an existing key keeps its position and takes the new value
DictPut(d, k, v) ==
    IF DictHas(d, k)
    THEN [d EXCEPT ![DictIndex(d, k, 1)] = <<k, v>>]
    ELSE Append(d, <<k, v>>)

(***************************************************************************)
(* Query algebra: detaorm/query.py                                         *)
(***************************************************************************)
\* A node is a record; a Query carries key and value, And / Or carry nodes.
Query(key, value) == [t |-> "Query", key |-> key, value |-> value, nodes |-> <<>>]

\* Node.nodes: a Query's nodes is the one-element tuple (self,)
Nodes(n) == IF n.t = "Query" THEN <<n>> ELSE n.nodes

\* _filter_nodes that keeps a node of the class itself as one node
FilterNodesKeep(cls, nodes) == nodes

RECURSIVE FilterNodes(_, _)
FilterNodes(cls, nodes) ==
    IF nodes = <<>> THEN <<>>
    ELSE LET n == Head(nodes) IN
         (IF n.t = cls THEN Nodes(n) ELSE <<n>>) \o FilterNodes(cls, Tail(nodes))

And(nodes) == [t |-> "And", key |-> "", value |-> 0, nodes |-> FilterNodes("And", nodes)]

Or(nodes) == [t |-> "Or", key |-> "", value |-> 0, nodes |-> FilterNodes("Or", nodes)]

\* Node._and, by the class of self: Query._and, And._and, Or._and
RECURSIVE NodeAnd(_, _)
RECURSIVE OrAndEach(_, _)
\* Or._and over the first node of the disjunction only
OrAndFirst(nodes, other) ==
    IF nodes = <<>> THEN <<>> ELSE <<NodeAnd(Head(nodes), other)>>

OrAndEach(nodes, other) ==
    IF nodes = <<>> THEN <<>>
    ELSE <<NodeAnd(Head(nodes), other)>> \o OrAndEach(Tail(nodes), other)

NodeAnd(self, other) ==
    CASE self.t = "Query" ->
            IF other.t = "Query" THEN And(<<self, other>>)
            ELSE NodeAnd(other, self)
      [] self.t = "And" ->
            IF other.t = "Query" THEN And(Nodes(self) \o <<other>>)
            ELSE IF other.t = "And" THEN And(Nodes(self) \o Nodes(other))
            ELSE NodeAnd(other, self)
      [] OTHER -> Or(OrAndEach(Nodes(self), other))

\* AndStep with the operands of _and exchanged: node._and(final)
AndStepSwapped(final, node) == NodeAnd(node, final)

\* One pass of the loop body of And._flatten, on an already flattened node
AndStep(final, node) == NodeAnd(final, node)

RECURSIVE Flatten(_)
RECURSIVE AndFold(_, _, _)
RECURSIVE FlattenEach(_)
\* The loop of And._flatten: has is "final is not None"
AndFold(has, final, nodes) ==
    IF nodes = <<>> THEN (IF has THEN final ELSE Or(<<>>))
    ELSE LET node == Flatten(Head(nodes)) IN
         IF has THEN AndFold(TRUE, AndStep(final, node), Tail(nodes))
         ELSE AndFold(TRUE, node, Tail(nodes))

FlattenEach(nodes) ==
    IF nodes = <<>> THEN <<>>
    ELSE <<Flatten(Head(nodes))>> \o FlattenEach(Tail(nodes))

Flatten(n) ==
    CASE n.t = "Query" -> n
      [] n.t = "And" -> AndFold(FALSE, n, Nodes(n))
      [] OTHER -> Or(FlattenEach(Nodes(n)))

\* {q.key: q.value for q in node.nodes}
RECURSIVE ClauseDict(_, _)
ClauseDict(qs, d) ==
    IF qs = <<>> THEN d
    ELSE ClauseDict(Tail(qs), DictPut(d, Head(qs).key, Head(qs).value))

\* the two shape assertions of deta_query on one child of the tree
ShapeOk(node) ==
    /\ node.t \in {"Query", "And"}
    /\ \A i \in 1..Len(Nodes(node)) : Nodes(node)[i].t = "Query"

\* every q of node.nodes has the .key and .value the comprehension reads
HasKeys(node) == \A i \in 1..Len(Nodes(node)) : Nodes(node)[i].t = "Query"

\* The loop of deta_query over tree.nodes.  With assertions compiled out only
\* the comprehension can fail, on a q that is no Query and has no .key; a
\* nested Or of Queries then yields a clause as an And does.
RECURSIVE DetaLoop(_, _, _)
DetaLoop(nodes, result, dbg) ==
    IF nodes = <<>> THEN [err |-> "none", wire |-> result]
    ELSE IF dbg /\ ~ShapeOk(Head(nodes))
         THEN [err |-> "AssertionError", wire |-> result]
    ELSE IF ~HasKeys(Head(nodes))
         THEN [err |-> "AttributeError", wire |-> result]
    ELSE DetaLoop(Tail(nodes),
                  Append(result, ClauseDict(Nodes(Head(nodes)), <<>>)), dbg)

DetaTree(n) ==
    LET tree == Flatten(n) IN IF tree.t = "Or" THEN tree ELSE Or(<<tree>>)

DetaQuery(n, dbg) ==
    LET r == DetaLoop(Nodes(DetaTree(n)), <<>>, dbg)
    IN  [err |-> r.err, wire |-> r.wire, tree |-> Flatten(n)]

(***************************************************************************)
(* Page cursor: detaorm/paginator.py and Client.query_items                *)
(***************************************************************************)
\* The query argument of query_items: None, a list of clauses, or a Node.
QNone == [kind |-> "None", wire |-> <<>>, node |-> Or(<<>>)]

QList(w) == [kind |-> "list", wire |-> w, node |-> Or(<<>>)]

QNode(n) == [kind |-> "Node", wire |-> <<>>, node |-> n]

\* A continuation token is a positive number, the index of the page it was
\* returned with; no token (None) is 0.  "not self._last" is "last = 0".
NoPage == [some |-> FALSE, query |-> QNone, limit |-> 0, last |-> 0, items |-> 0]

\* RawPage.__init__; items is the index of the store's page the items are of
RawPage(query, limit, last, items) ==
    [some |-> TRUE, query |-> query, limit |-> limit, last |-> last, items |-> items]

\* first_page: "if isinstance(query, Node): query = query.deta_query()"
ConvertQuery(q, dbg) ==
    IF q.kind = "Node"
    THEN LET r == DetaQuery(q.node, dbg) IN [err |-> r.err, query |-> QList(r.wire)]
    ELSE [err |-> "none", query |-> q]

\* first_page: the request body; a falsy query, limit or last is left out
RequestData(query, limit, last) ==
    LET hasq == query.kind = "list" /\ query.wire # <<>> IN
    [hasQuery |-> hasq, query |-> IF hasq THEN query.wire ELSE <<>>,
     hasLimit |-> limit # 0, limit |-> limit,
     hasLast |-> last # 0, last |-> last]

\* The store: a request without last is answered with page 1, a request with
\* the token of page k with page k + 1; every page but the last has a token.
ServerItems(data) == IF data.hasLast THEN data.last + 1 ELSE 1

ServerLast(items) == IF items < npages THEN items ELSE 0

\* The body of the first_page coroutine, run to its end.  ok: the transport
\* call succeeds.  reqs: the request bodies posted.
FirstPageRun(args, ok, dbg) ==
    LET c == ConvertQuery(args.query, dbg) IN
    IF c.err # "none" THEN [res |-> c.err, page |-> NoPage, reqs |-> <<>>]
    ELSE LET data == RequestData(c.query, args.limit, args.last) IN
         IF ~ok THEN [res |-> "TransportError", page |-> NoPage, reqs |-> <<data>>]
         ELSE [res |-> "page",
               page |-> RawPage(c.query, args.limit,
                                ServerLast(ServerItems(data)), ServerItems(data)),
               reqs |-> <<data>>]

\* AwaitCoro for an awaitable that can be awaited again: the body runs anew
AwaitCoroAgain(c, ok, dbg) == FirstPageRun(c, ok, dbg)

\* Awaiting a coroutine object: one that has run to its end (result or
\* exception) cannot be awaited again.
AwaitCoro(c, ok, dbg) ==
    IF c.state = "spent"
    THEN [res |-> "RuntimeError", page |-> NoPage, reqs |-> <<>>]
    ELSE FirstPageRun(c, ok, dbg)

\* A limit argument of RawPage.next: None or a number
NoLimit == [given |-> FALSE, v |-> 0]

Limit(n) == [given |-> TRUE, v |-> n]

NoCall == [made |-> FALSE, query |-> QNone, limit |-> 0, last |-> 0]

NewCoro(query, limit, last) ==
    [state |-> "created", query |-> query, limit |-> limit, last |-> last]

\* NextLimit as "limit or self._limit": a limit of 0 falls back as None does
NextLimitFalsy(page, limit) == IF limit.given /\ limit.v # 0 THEN limit.v ELSE page.limit

\* NextArgs without the page's token: last is left at its default
NextArgsNoToken(page, limit) ==
    [state |-> "created", query |-> page.query,
     limit |-> IF limit.given THEN limit.v ELSE page.limit, last |-> 0]

\* RawPage.next: the arguments of the query_items call it makes
NextLimit(page, limit) == IF limit.given THEN limit.v ELSE page.limit

NextArgs(page, limit) == NewCoro(page.query, NextLimit(page, limit), page.last)

\* RawPage.next(limit): None without a token, else the awaited page of a new
\* paginator made by query_items
PageNextRun(page, limit, ok, dbg) ==
    IF page.last = 0
    THEN [res |-> "terminal", page |-> NoPage, reqs |-> <<>>, call |-> NoCall]
    ELSE LET args == NextArgs(page, limit)
             r == AwaitCoro(args, ok, dbg)
         IN  [res |-> r.res, page |-> r.page, reqs |-> r.reqs,
              call |-> [made |-> TRUE, query |-> args.query,
                        limit |-> args.limit, last |-> args.last]]

(***************************************************************************)
(* Update instructions and their local replay: detaorm/update.py,          *)
(* Client.update_item, Base.update                                         *)
(***************************************************************************)
\* A value held in a record: an int, a list of ints or a dict.  A record's
\* raw dict is the function from the paths (key sequences) that exist in it
\* to the cell there; the children of a dict cell are the paths below it.
IntV(n) == [t |-> "int", i |-> n, l |-> <<>>]

ListV(s) == [t |-> "list", i |-> 0, l |-> s]

DictV == [t |-> "dict", i |-> 0, l |-> <<>>]

\* A dotted key "a.b" is the sequence <<"a", "b">> of its segments, which is
\* what key.split(".") makes of it.
IsPrefix(p, q) == Len(p) <= Len(q) /\ SubSeq(q, 1, Len(p)) = p

\* the type of the object at a path; the root is the raw dict itself
Kind(raw, p) == IF p = <<>> THEN "dict" ELSE raw[p].t

\* del d[k] for the object at path p: the key and all that is below it
Drop(raw, p) == [q \in {x \in DOMAIN raw : ~IsPrefix(p, x)} |-> raw[q]]

\* d[k] = v for the path p = d's path + k
Put(raw, p, v) ==
    LET rest == Drop(raw, p)
    IN  [q \in (DOMAIN rest) \cup {p} |-> IF q = p THEN v ELSE rest[q]]

\* traverse: the loop "final_dict = final_dict.setdefault(k, {})" over the
\* keys before the last; at is the path of final_dict
RECURSIVE Walk(_, _, _)
Walk(raw, at, keys) ==
    IF keys = <<>> THEN [raw |-> raw, at |-> at, err |-> "none"]
    ELSE IF Kind(raw, at) # "dict" THEN [raw |-> raw, at |-> at, err |-> "AttributeError"]
    ELSE LET next == Append(at, Head(keys)) IN
         Walk(IF next \in DOMAIN raw THEN raw ELSE Put(raw, next, DictV),
              next, Tail(keys))

Traverse(raw, key) ==
    LET w == Walk(raw, <<>>, SubSeq(key, 1, Len(key) - 1))
    IN  [raw |-> w.raw, dct |-> w.at, fk |-> key[Len(key)], err |-> w.err]

\* the exception of "assert isinstance(orig, T)" on another type, or of the
\* "+" that follows when assertions are compiled out
TypeFails(dbg) == IF dbg THEN "AssertionError" ELSE "TypeError"

\* one pass of "for k, v in cd(ud["set"]).items()"
ApplySet(raw, key, v, dbg) ==
    LET tr == Traverse(raw, key) IN
    IF tr.err # "none" THEN [raw |-> tr.raw, err |-> tr.err]
    ELSE IF Kind(tr.raw, tr.dct) # "dict" THEN [raw |-> tr.raw, err |-> "TypeError"]
    ELSE [raw |-> Put(tr.raw, Append(tr.dct, tr.fk), v), err |-> "none"]

\* one pass of the increment, append or prepend loop: want is the type the
\* stored value must have, new the value stored for it
ApplyMerge(raw, key, v, dbg, want) ==
    LET tr == Traverse(raw, key)
        p == Append(tr.dct, tr.fk)
    IN  IF tr.err # "none" THEN [raw |-> tr.raw, err |-> tr.err]
        ELSE IF Kind(tr.raw, tr.dct) = "int" THEN [raw |-> tr.raw, err |-> "TypeError"]
        ELSE IF Kind(tr.raw, tr.dct) = "list" \/ p \notin DOMAIN tr.raw
             THEN [raw |-> tr.raw, err |-> "none"]
        ELSE IF tr.raw[p].t # want THEN [raw |-> tr.raw, err |-> TypeFails(dbg)]
        ELSE [raw |-> tr.raw, err |-> "none", p |-> p]

ApplyIncrement(raw, key, v, dbg) ==
    LET m == ApplyMerge(raw, key, v, dbg, "int") IN
    IF "p" \in DOMAIN m
    THEN [raw |-> Put(m.raw, m.p, IntV(m.raw[m.p].i + v.i)), err |-> "none"]
    ELSE m

ApplyAppend(raw, key, v, dbg) ==
    LET m == ApplyMerge(raw, key, v, dbg, "list") IN
    IF "p" \in DOMAIN m
    THEN [raw |-> Put(m.raw, m.p, ListV(m.raw[m.p].l \o v.l)), err |-> "none"]
    ELSE m

ApplyPrepend(raw, key, v, dbg) ==
    LET m == ApplyMerge(raw, key, v, dbg, "list") IN
    IF "p" \in DOMAIN m
    THEN [raw |-> Put(m.raw, m.p, ListV(v.l \o m.raw[m.p].l)), err |-> "none"]
    ELSE m

\* one pass of "for k in cl(ud["delete"])": dct.pop(fk)
ApplyDelete(raw, key, dbg) ==
    LET tr == Traverse(raw, key)
        p == Append(tr.dct, tr.fk)
    IN  IF tr.err # "none" THEN [raw |-> tr.raw, err |-> tr.err]
        ELSE IF Kind(tr.raw, tr.dct) = "int" THEN [raw |-> tr.raw, err |-> "AttributeError"]
        ELSE IF Kind(tr.raw, tr.dct) = "list" THEN [raw |-> tr.raw, err |-> "TypeError"]
        ELSE IF p \notin DOMAIN tr.raw THEN [raw |-> tr.raw, err |-> "KeyError"]
        ELSE [raw |-> Drop(tr.raw, p), err |-> "none"]

ApplyOne(raw, field, entry, dbg) ==
    CASE field = "set" -> ApplySet(raw, entry[1], entry[2], dbg)
      [] field = "increment" -> ApplyIncrement(raw, entry[1], entry[2], dbg)
      [] field = "append" -> ApplyAppend(raw, entry[1], entry[2], dbg)
      [] field = "prepend" -> ApplyPrepend(raw, entry[1], entry[2], dbg)
      [] OTHER -> ApplyDelete(raw, entry, dbg)

\* one of the five loops of Base.update, left at the first exception
RECURSIVE ApplyAll(_, _, _, _)
ApplyAll(r, field, entries, dbg) ==
    IF r.err # "none" \/ entries = <<>> THEN r
    ELSE ApplyAll(ApplyOne(r.raw, field, Head(entries), dbg), field, Tail(entries), dbg)

\* the order of the five loops of Base.update
ApplyOrder == <<"set", "increment", "append", "prepend", "delete">>

RECURSIVE ReconcileFrom(_, _, _, _)
ReconcileFrom(r, ud, k, dbg) ==
    IF k > Len(ApplyOrder) THEN r
    ELSE ReconcileFrom(ApplyAll(r, ApplyOrder[k], ud[ApplyOrder[k]], dbg), ud, k + 1, dbg)

\* Base.update after the update_item call: the replay of the merged
\* instructions ud on the dict raw
Reconcile(raw, ud, dbg) == ReconcileFrom([raw |-> raw, err |-> "none"], ud, 1, dbg)

\* An Update object: SetUpdate, IncrementUpdate, AppendUpdate, PrependUpdate
\* (payload: a dict, here its <<key, value>> pairs in order) and DeleteUpdate
\* (payload: a list of keys)
Update(field, payload) == [field |-> field, payload |-> payload]

\* join of Client.update_item: {**left, **right} or [*left, *right]
RECURSIVE DictUnion(_, _)
DictUnion(left, right) ==
    IF right = <<>> THEN left
    ELSE DictUnion(DictPut(left, Head(right)[1], Head(right)[2]), Tail(right))

Join(field, left, right) ==
    IF field = "delete" THEN left \o right ELSE DictUnion(left, right)

\* the data of update_item before the loop, the keyword arguments being None
EmptyData ==
    [set |-> <<>>, increment |-> <<>>, append |-> <<>>, prepend |-> <<>>,
     delete |-> <<>>]

\* Client.update_item: the loop "for update in updates"
RECURSIVE UpdateItem(_, _)
UpdateItem(data, updates) ==
    IF updates = <<>> THEN data
    ELSE LET u == Head(updates) IN
         UpdateItem([data EXCEPT ![u.field] = Join(u.field, data[u.field], u.payload)],
                    Tail(updates))

\* the replay with every instruction applied on its own, in the caller's order
RECURSIVE ReplayInCallerOrder(_, _, _)
ReplayInCallerOrder(r, updates, dbg) ==
    IF r.err # "none" \/ updates = <<>> THEN r
    ELSE ReplayInCallerOrder(Reconcile(r.raw, UpdateItem(EmptyData, <<Head(updates)>>), dbg),
                             Tail(updates), dbg)

UpdateResultInCallerOrder(raw, updates, dbg) ==
    ReplayInCallerOrder([raw |-> raw, err |-> "none"], updates, dbg)

\* Base.update once the store has accepted the request: the merged
\* instructions update_item returns, replayed on raw
UpdateResult(raw, updates, dbg) == Reconcile(raw, UpdateItem(EmptyData, updates), dbg)

\* "new_self.raw = self.raw": the reference the new record's raw is given
NewSelfRaw(selfRaw) == selfRaw

(***************************************************************************)
(* The caller of the query core: builds an expression with the And / Or    *)
(* constructors and the & and | combinators, then serializes it.           *)
(***************************************************************************)
MaxSize == 6

\* the literals the caller has at hand; the first and the last share a key
LitSeq == <<Query("age?gt", 10), Query("age?lt", 5), Query("name", 1), Query("age?gt", 20)>>

Lits == {LitSeq[i] : i \in DOMAIN LitSeq}

LitPairs == {p \in (DOMAIN LitSeq) \X (DOMAIN LitSeq) : p[1] < p[2]}

\* what the caller combines the expression with: a literal, an empty And or
\* Or, or a disjunction of two literals
Operands ==
    Lits \cup {And(<<>>), Or(<<>>)}
         \cup {Or(<<LitSeq[p[1]], LitSeq[p[2]]>>) : p \in LitPairs}

RECURSIVE Size(_)
RECURSIVE SizeEach(_)
SizeEach(nodes) == IF nodes = <<>> THEN 0 ELSE Size(Head(nodes)) + SizeEach(Tail(nodes))

Size(n) == IF n.t = "Query" THEN 1 ELSE 1 + SizeEach(n.nodes)

NoOut == [err |-> "none", wire |-> <<>>, tree |-> Or(<<>>)]

InitQuery ==
    /\ expr \in Operands
    /\ qpc = "build"
    /\ out = NoOut

Build(e) ==
    /\ qpc = "build"
    /\ Size(e) <= MaxSize
    /\ expr' = e
    /\ UNCHANGED <<qpc, out, debug, cvars, uvars>>

\* Node.__and__: expr & x, and x & expr
BuildAnd == \E x \in Operands : Build(And(<<expr, x>>)) \/ Build(And(<<x, expr>>))

\* Node.__or__: expr | x, and x | expr
BuildOr == \E x \in Operands : Build(Or(<<expr, x>>)) \/ Build(Or(<<x, expr>>))

\* And(expr), Or(expr): the constructors with one argument
BuildWrap == Build(And(<<expr>>)) \/ Build(Or(<<expr>>))

\* Node.deta_query on the expression built
Serialize ==
    /\ qpc = "build"
    /\ qpc' = "done"
    /\ out' = DetaQuery(expr, debug)
    /\ UNCHANGED <<expr, debug, cvars, uvars>>

NextQuery == BuildAnd \/ BuildOr \/ BuildWrap \/ Serialize

(***************************************************************************)
(* The caller of the cursor core: makes a paginator with query_items, then *)
(* awaits it, iterates it, and calls next on the page it holds, one call   *)
(* at a time.                                                              *)
(***************************************************************************)
MaxPages == 3

MaxFetch == 4

\* the query, limit and last arguments the caller passes to query_items
QueryArgs == {QNone, QList(<< <<<<"name", 1>>>> >>), QNode(Query("age?gt", 10))}

LimitChoices == {0, 2}

\* the limit argument the caller passes to RawPage.next
NextLimits == {NoLimit, Limit(0), Limit(1)}

CursorState ==
    [first_page |-> first_page, coro |-> coro, current_page |-> current_page,
     held |-> held, exhausted |-> exhausted]

NoStep ==
    [op |-> "none", res |-> "none", page |-> NoPage, sent |-> 0, call |-> NoCall,
     limit |-> NoLimit,
     before |-> [first_page |-> "None", coro |-> NewCoro(QNone, 0, 0),
                 current_page |-> NoPage, held |-> NoPage, exhausted |-> FALSE]]

InitCursor ==
    /\ npages \in 1..MaxPages
    /\ cpc = "new"
    /\ first_page = "None"
    /\ coro = NewCoro(QNone, 0, 0)
    /\ current_page = NoPage
    /\ held = NoPage
    /\ log = <<>>
    /\ delivered = <<>>
    /\ exhausted = FALSE
    /\ step = NoStep

\* Client.query_items and RawPaginator.__init__: the coroutine object is made
\* and stored; nothing of its body has run
QueryItems ==
    \E q \in QueryArgs, limit \in LimitChoices, last \in 0..(npages - 1) :
        /\ cpc = "new"
        /\ cpc' = "open"
        /\ first_page' = "coro"
        /\ coro' = NewCoro(q, limit, last)
        /\ current_page' = NoPage
        /\ step' = [NoStep EXCEPT !.op = "query_items", !.res = "paginator",
                                  !.before = CursorState]
        /\ UNCHANGED <<npages, held, log, delivered, exhausted>>
        /\ UNCHANGED <<debug, qvars, uvars>>

\* the exception of "assert x" on a None x, or of the use of None that
\* follows when assertions are compiled out
AssertFails == IF debug THEN "AssertionError" ELSE "AttributeError"

\* RawPaginator.__anext__: one iteration step
Anext ==
    \E ok \in BOOLEAN :
        /\ cpc = "open"
        /\ IF first_page = "coro"
           THEN \E r \in {AwaitCoro(coro, ok, debug)} :
                /\ Len(log) + Len(r.reqs) <= MaxFetch
                /\ coro' = [coro EXCEPT !.state = "spent"]
                /\ log' = log \o r.reqs
                /\ step' = [op |-> "anext", res |-> r.res, page |-> r.page,
                            sent |-> Len(r.reqs), call |-> NoCall,
                            limit |-> NoLimit, before |-> CursorState]
                /\ IF r.res = "page"
                   THEN /\ current_page' = r.page
                        /\ first_page' = "None"
                        /\ delivered' = Append(delivered, r.page.items)
                        /\ held' = r.page
                   ELSE UNCHANGED <<current_page, first_page, delivered, held>>
                /\ UNCHANGED exhausted
           ELSE IF ~current_page.some
           THEN /\ step' = [op |-> "anext", res |-> AssertFails, page |-> NoPage,
                            sent |-> 0, call |-> NoCall, limit |-> NoLimit,
                            before |-> CursorState]
                /\ UNCHANGED <<first_page, coro, current_page, held, log,
                               delivered, exhausted>>
           ELSE \E r \in {PageNextRun(current_page, NoLimit, ok, debug)} :
                /\ Len(log) + Len(r.reqs) <= MaxFetch
                /\ log' = log \o r.reqs
                /\ step' = [op |-> "anext", res |-> r.res, page |-> r.page,
                            sent |-> Len(r.reqs), call |-> r.call,
                            limit |-> NoLimit, before |-> CursorState]
                /\ current_page' = IF r.res \in {"page", "terminal"}
                                   THEN r.page ELSE current_page
                /\ exhausted' = (exhausted \/ r.res = "terminal")
                /\ delivered' = IF r.res = "page"
                                THEN Append(delivered, r.page.items) ELSE delivered
                /\ held' = IF r.res = "page" THEN r.page ELSE held
                /\ UNCHANGED <<first_page, coro>>
        /\ UNCHANGED <<npages, cpc, debug, qvars, uvars>>

\* RawPaginator.__await__, awaited: the single pull of the first page
Await ==
    \E ok \in BOOLEAN :
        /\ cpc = "open"
        /\ IF first_page = "None"
           THEN /\ step' = [op |-> "await", res |-> AssertFails, page |-> NoPage,
                            sent |-> 0, call |-> NoCall, limit |-> NoLimit,
                            before |-> CursorState]
                /\ UNCHANGED <<coro, held, log>>
           ELSE \E r \in {AwaitCoro(coro, ok, debug)} :
                /\ Len(log) + Len(r.reqs) <= MaxFetch
                /\ coro' = [coro EXCEPT !.state = "spent"]
                /\ log' = log \o r.reqs
                /\ step' = [op |-> "await", res |-> r.res, page |-> r.page,
                            sent |-> Len(r.reqs), call |-> NoCall,
                            limit |-> NoLimit, before |-> CursorState]
                /\ held' = IF r.res = "page" THEN r.page ELSE held
        /\ UNCHANGED <<npages, cpc, first_page, current_page, delivered, exhausted>>
        /\ UNCHANGED <<debug, qvars, uvars>>

\* RawPage.next(limit) on the page the caller holds
PageNext ==
    \E limit \in NextLimits, ok \in BOOLEAN :
        /\ held.some
        /\ \E r \in {PageNextRun(held, limit, ok, debug)} :
           /\ Len(log) + Len(r.reqs) <= MaxFetch
           /\ log' = log \o r.reqs
           /\ step' = [op |-> "next", res |-> r.res, page |-> r.page,
                       sent |-> Len(r.reqs), call |-> r.call, limit |-> limit,
                       before |-> CursorState]
           /\ held' = IF r.res = "page" THEN r.page ELSE held
        /\ UNCHANGED <<npages, cpc, first_page, coro, current_page, delivered,
                       exhausted, debug, qvars, uvars>>

NextCursor == QueryItems \/ Anext \/ Await \/ PageNext

(***************************************************************************)
(* The caller of the update core: calls Base.update on a record it holds,  *)
(* the first one or one a former call returned.                            *)
(***************************************************************************)
MaxWork == 4

\* the raw dict of the first record
EmptyRaw == [p \in {} |-> DictV]

InitRaws ==
    {EmptyRaw,
     <<"a">> :> IntV(1),
     <<"a">> :> ListV(<<1>>),
     <<"a">> :> DictV,
     (<<"a">> :> DictV) @@ (<<"a", "b">> :> IntV(1)),
     (<<"a">> :> DictV) @@ (<<"a", "b">> :> ListV(<<1>>))}

\* the Update objects the caller has at hand, as Field.set, .increment,
\* .append, .prepend and .delete make them
Instructions ==
    {Update("set", << <<<<"a">>, IntV(2)>> >>),
     Update("set", << <<<<"a">>, ListV(<<2>>)>> >>),
     Update("set", << <<<<"a", "b">>, IntV(2)>> >>),
     Update("increment", << <<<<"a">>, IntV(1)>> >>),
     Update("increment", << <<<<"a", "b">>, IntV(1)>> >>),
     Update("append", << <<<<"a">>, ListV(<<3>>)>> >>),
     Update("append", << <<<<"a", "b">>, ListV(<<3>>)>> >>),
     Update("prepend", << <<<<"a">>, ListV(<<4>>)>> >>),
     Update("delete", << <<"a">> >>),
     Update("delete", << <<"a", "b">> >>)}

UpdateLists(n) == UNION {[1..k -> Instructions] : k \in 0..n}

NoUpd ==
    [op |-> "none", self |-> 0, before |-> EmptyRaw, updates |-> <<>>,
     res |-> "none", after |-> EmptyRaw, made |-> 0]

InitUpdate ==
    /\ heap \in {<<raw>> : raw \in InitRaws}
    /\ recs = <<1>>
    /\ work = 0
    /\ upd = NoUpd

\* Base.update on record self.  ok: the store accepts the request.
BaseUpdate ==
    \E self \in 1..Len(recs), ok \in BOOLEAN :
    \E updates \in UpdateLists(MaxWork - work - 1) :
        /\ work' = work + Len(updates) + 1
        /\ IF ~ok
           THEN /\ upd' = [op |-> "update", self |-> self, before |-> heap[recs[self]],
                           updates |-> updates, res |-> "TransportError",
                           after |-> heap[recs[self]], made |-> 0]
                /\ UNCHANGED <<heap, recs>>
           ELSE \E ref \in {NewSelfRaw(recs[self])} :
                \E r \in {UpdateResult(heap[ref], updates, debug)} :
                    /\ heap' = [heap EXCEPT ![ref] = r.raw]
                    /\ recs' = IF r.err = "none" THEN Append(recs, ref) ELSE recs
                    /\ upd' = [op |-> "update", self |-> self,
                               before |-> heap[recs[self]], updates |-> updates,
                               res |-> IF r.err = "none" THEN "ok" ELSE r.err,
                               after |-> r.raw,
                               made |-> IF r.err = "none" THEN Len(recs) + 1 ELSE 0]
        /\ UNCHANGED <<debug, qvars, cvars>>

NextUpdate == BaseUpdate

vars == <<debug, qvars, cvars, uvars>>

QueryIdle == expr = Or(<<>>) /\ qpc = "idle" /\ out = NoOut

CursorIdle ==
    /\ npages = 1
    /\ cpc = "idle"
    /\ first_page = "None"
    /\ coro = NewCoro(QNone, 0, 0)
    /\ current_page = NoPage
    /\ held = NoPage
    /\ log = <<>>
    /\ delivered = <<>>
    /\ exhausted = FALSE
    /\ step = NoStep

UpdateIdle == heap = <<EmptyRaw>> /\ recs = <<>> /\ work = 0 /\ upd = NoUpd

QueryStart == debug \in BOOLEAN /\ InitQuery /\ CursorIdle /\ UpdateIdle

CursorStart == debug \in BOOLEAN /\ InitCursor /\ QueryIdle /\ UpdateIdle

UpdateStart == debug \in BOOLEAN /\ InitUpdate /\ QueryIdle /\ CursorIdle

SpecQuery == QueryStart /\ [][NextQuery]_vars

SpecCursor == CursorStart /\ [][NextCursor]_vars

SpecUpdate == UpdateStart /\ [][NextUpdate]_vars

(***************************************************************************)
(* Properties of the query core                                            *)
(***************************************************************************)
\* The clauses of a flattened tree, each the sequence of its terms, as
\* deta_query reads them.
Clauses(tree) ==
    LET top == IF tree.t = "Or" THEN tree.nodes ELSE <<tree>>
    IN  [i \in 1..Len(top) |-> Nodes(top[i])]

\* The distributive merge of two clause sequences: for each clause c1 of d1 in
\* order and each clause c2 of d2 in order, c1's terms followed by c2's terms.
Merge(d1, d2) ==
    [k \in 1..(Len(d1) * Len(d2)) |->
        d1[((k - 1) \div Len(d2)) + 1] \o d2[((k - 1) % Len(d2)) + 1]]

RECURSIVE MergeAll(_, _)
MergeAll(acc, nodes) ==
    IF nodes = <<>> THEN acc
    ELSE MergeAll(Merge(acc, Clauses(Flatten(Head(nodes)))), Tail(nodes))

\* C7: normalizing a Conjunction merges its children's normalized forms left
\* to right by the distributive law, order preserved: the clauses of the
\* result are, for each clause of the left operand and each clause of the right
\* operand in order, the left terms followed by the right terms.
C7_AndMergesInOrder ==
    (qpc = "done" /\ expr.t = "And" /\ expr.nodes # <<>>) =>
        Clauses(out.tree) =
            MergeAll(Clauses(Flatten(Head(expr.nodes))), Tail(expr.nodes))

\* C8: normalization is idempotent: flattening the flattened tree gives an
\* equal tree, and serializing it gives the same wire clauses.
C8_Idempotent ==
    qpc = "done" =>
        /\ Flatten(out.tree) = out.tree
        /\ DetaQuery(out.tree, debug).wire = out.wire
        /\ DetaQuery(out.tree, debug).err = out.err

\* C8 witness: a conjunction over a disjunction was normalized into several
\* clauses, a tree that differs from the expression built.
C8_Witness ==
    /\ qpc = "done"
    /\ expr.t = "And"
    /\ out.tree.t = "Or"
    /\ Len(out.tree.nodes) >= 2
    /\ out.tree # expr

\* C9: an empty Conjunction normalizes to a Disjunction holding exactly one
\* empty Conjunction, serialized as one clause with no keys.
C9_EmptyAndIsOneEmptyClause ==
    (qpc = "done" /\ expr = And(<<>>)) =>
        /\ Clauses(out.tree) = << <<>> >>
        /\ out.wire = << <<>> >>

(***************************************************************************)
(* Properties of the cursor core                                           *)
(***************************************************************************)
\* C2: once an iteration step has reported terminal, every further iteration
\* step reports terminal again and raises no error; RawPage.next on a page
\* without a token reports terminal, whenever it is called.
C2_ExhaustedStaysTerminal ==
    /\ (step.op = "anext" /\ step.before.exhausted) =>
            (step.res = "terminal" /\ current_page = step.before.current_page)
    /\ (step.op = "next" /\ step.before.held.last = 0) =>
            (step.res = "terminal" /\ held = step.before.held)

\* C5: iteration delivers the pages of the result in the store's order, each
\* once, starting after the token the paginator was made with; it reports
\* terminal only when all of them are delivered; each follow-up request
\* carries the token of the page delivered just before.
C5_IterationDeliversPagesInOrder ==
    cpc = "open" =>
        /\ \A i \in 1..Len(delivered) : delivered[i] = coro.last + i
        /\ Len(delivered) <= npages - coro.last
        /\ exhausted => Len(delivered) = npages - coro.last
        /\ (step.op = "anext" /\ step.call.made) =>
              /\ step.call.last = step.before.current_page.last
              /\ step.sent = 1
              /\ log[Len(log)].hasLast
              /\ log[Len(log)].last = step.before.current_page.last
              /\ step.res = "page" =>
                    /\ Len(delivered) >= 2
                    /\ delivered[Len(delivered) - 1] = step.before.current_page.items
                    /\ step.before.current_page.last = delivered[Len(delivered) - 1]

\* C5 witness: a result of three pages iterated from the start to terminal
C5_Witness ==
    /\ exhausted
    /\ npages = 3
    /\ delivered = <<1, 2, 3>>
    /\ step.op = "anext"
    /\ step.res = "terminal"

\* C6: RawPage.next(limit) returns terminal without a request when the page
\* has no token; otherwise it sends exactly one request, with the page's query,
\* the page's token as last and, as limit, the limit given (0 included) or
\* else the page's limit; the page returned remembers the limit used.
C6_NextReusesQueryAndLimit ==
    step.op = "next" =>
        LET p == step.before.held
            used == IF step.limit.given THEN step.limit.v ELSE p.limit
        IN  IF p.last = 0
            THEN step.res = "terminal" /\ step.sent = 0 /\ ~step.call.made
                 /\ held = p
            ELSE /\ step.call = [made |-> TRUE, query |-> p.query,
                                 limit |-> used, last |-> p.last]
                 /\ step.sent = 1
                 /\ log[Len(log)] = RequestData(p.query, used, p.last)
                 /\ log[Len(log)].hasLast
                 /\ log[Len(log)].hasLimit = (used # 0)
                 /\ step.res \in {"page", "TransportError"}
                 /\ step.res = "page" =>
                        /\ step.page.limit = used
                        /\ step.page.query = p.query
                        /\ step.page.items = p.last + 1
                        /\ held = step.page

\* C6 witness: a page fetched with limit 2 is followed with next(limit=0),
\* and the page returned is followed with next() without a limit
C6_Witness ==
    /\ step.op = "next"
    /\ step.res = "page"
    /\ ~step.limit.given
    /\ step.before.held.limit = 0
    /\ step.before.held.last # 0
    /\ coro.limit = 2
    /\ step.page.limit = 0

(***************************************************************************)
(* Properties of the update core                                           *)
(***************************************************************************)
\* C1: Base.update never mutates the prior snapshot: after the call the dict
\* of the record it was called on equals what it was before the call.
C1_UpdateKeepsPriorSnapshot ==
    upd.op = "update" => heap[recs[upd.self]] = upd.before

\* C3: an Increment, Append or Prepend whose leaf path does not exist in the
\* snapshot is a no-op: the snapshot is unchanged at every level and no error
\* is raised.
C3_AbsentLeafIsNoOp ==
    (/\ upd.op = "update"
     /\ upd.res # "TransportError"
     /\ Len(upd.updates) = 1
     /\ upd.updates[1].field \in {"increment", "append", "prepend"}
     /\ upd.updates[1].payload[1][1] \notin DOMAIN upd.before) =>
        (upd.res = "ok" /\ upd.after = upd.before)

\* the permutations of 1..n
PermsOf == [n \in 0..MaxWork |->
               {f \in [1..n -> 1..n] : \A i, j \in 1..n : i # j => f[i] # f[j]}]

Permute(seq, f) == [i \in 1..Len(seq) |-> seq[f[i]]]

\* f keeps the instructions of one kind in their relative order
KeepsKindOrder(seq, f) ==
    \A i, j \in 1..Len(seq) :
        (i < j /\ seq[f[i]].field = seq[f[j]].field) => f[i] < f[j]

\* what the caller gets: the new snapshot, or the kind of the failure
Outcome(r) == IF r.err = "none" THEN r ELSE [raw |-> EmptyRaw, err |-> r.err]

UpdOutcome == Outcome([raw |-> upd.after, err |-> IF upd.res = "ok" THEN "none" ELSE upd.res])

\* C4: the outcome of an update is independent of the order in which the
\* caller supplied the instructions: every permutation of the list yields the
\* same snapshot or the same failure.
C4_AnyOrderSameOutcome ==
    (upd.op = "update" /\ upd.res # "TransportError") =>
        \A f \in PermsOf[Len(upd.updates)] :
            Outcome(UpdateResult(upd.before, Permute(upd.updates, f), debug)) = UpdOutcome

\* C4 as amended: every reordering of the list that keeps the instructions
\* of each kind in their relative order yields the same snapshot or the same
\* failure.
C4_KindOrderSameOutcome ==
    (upd.op = "update" /\ upd.res # "TransportError") =>
        \A f \in PermsOf[Len(upd.updates)] :
            KeepsKindOrder(upd.updates, f) =>
                Outcome(UpdateResult(upd.before, Permute(upd.updates, f), debug)) = UpdOutcome

\* C4 witness: a Delete supplied before an Append or Prepend of the same
\* path, with an Increment in between; the update succeeded and removed the
\* path
C4_Witness ==
    /\ upd.op = "update"
    /\ upd.res = "ok"
    /\ Len(upd.updates) = 3
    /\ upd.updates[1].field = "delete"
    /\ upd.updates[2].field = "increment"
    /\ upd.updates[3].field \in {"append", "prepend"}
    /\ upd.updates[1].payload[1] = upd.updates[3].payload[1][1]
    /\ upd.updates[1].payload[1] \in DOMAIN upd.before
    /\ upd.after # upd.before

\* C10: a transport failure leaves local state untouched: after a failed
\* fetch the cursor is as it was before the step, so that the step can be
\* attempted again; after a failed update call no snapshot reflects any of
\* the instructions.
C10_TransportFailureKeepsState ==
    /\ (step.res = "TransportError" /\ step.op \in {"anext", "await"}) =>
            /\ current_page = step.before.current_page
            /\ first_page = step.before.first_page
            /\ coro = step.before.coro
    /\ upd.res = "TransportError" =>
            /\ heap[recs[upd.self]] = upd.before
            /\ upd.made = 0

(***************************************************************************)
(* Properties of the cursor's first page                                   *)
(***************************************************************************)
\* the requests of the log that ask for the first page of the paginator: the
\* ones that carry the last argument query_items was called with (a follow-up
\* request carries the token of a page, which lies after it)
FirstPageRequests == {i \in 1..Len(log) : log[i].last = coro.last}

\* a step that asks the paginator for its first page: an await, or an
\* iteration step taken while __first_page is set
FirstPageAttempt ==
    \/ step.op = "await"
    \/ step.op = "anext" /\ step.before.first_page = "coro"

\* C11: constructing a cursor starts the first page fetch at construction
\* time, before any await or iteration step: once query_items has returned,
\* the request is on its way; the page's content is not yet in the caller's
\* hands.
C11_ConstructionStartsFirstFetch ==
    step.op = "query_items" =>
        /\ Len(log) = 1 \/ coro.state # "created"
        /\ ~held.some /\ ~current_page.some /\ delivered = <<>>

\* C15: the first-page fetch is one-shot: the first-page request is sent at
\* most once, and an attempt to obtain the first page after it was obtained or
\* tried ends in an error, sends no request and leaves the current page as it
\* was.
C15_FirstPageIsOneShot ==
    cpc = "open" =>
        /\ Cardinality(FirstPageRequests) <= 1
        /\ (coro.state = "created") => FirstPageRequests = {}
        /\ (FirstPageAttempt /\ step.sent > 0) => step.before.coro.state = "created"
        /\ (/\ FirstPageAttempt
            /\ \/ step.before.coro.state = "spent"
               \/ step.before.first_page = "None") =>
                /\ step.res \in {"RuntimeError", "AssertionError", "AttributeError"}
                /\ step.sent = 0
                /\ current_page = step.before.current_page

\* C15 witness: the paginator was awaited, a page was fetched, and it is
\* awaited once more
C15_Witness ==
    /\ step.op = "await"
    /\ step.before.coro.state = "spent"
    /\ step.before.held.some
    /\ step.res = "RuntimeError"
    /\ Cardinality(FirstPageRequests) = 1

(***************************************************************************)
(* Properties of the tree that reaches the serializer                      *)
(***************************************************************************)
\* strict DNF: a Disjunction whose children are Literals or Conjunctions, the
\* Conjunctions holding Literals only
StrictDNF(tree) ==
    /\ tree.t = "Or"
    /\ \A i \in 1..Len(tree.nodes) :
          \/ tree.nodes[i].t = "Query"
          \/ /\ tree.nodes[i].t = "And"
             /\ \A j \in 1..Len(tree.nodes[i].nodes) :
                    tree.nodes[i].nodes[j].t = "Query"

\* C13: for every expression built with the constructors and combinators,
\* the tree that reaches the serializer is in strict DNF, and the shape
\* assertions of deta_query do not fail.
C13_SerializerSeesStrictDNF ==
    qpc = "done" =>
        /\ StrictDNF(DetaTree(expr))
        /\ out.err = "none"
        /\ Len(out.wire) = Len(DetaTree(expr).nodes)

\* C13 witness: a disjunction whose child is a conjunction over a
\* disjunction was serialized into two clauses
C13_Witness ==
    /\ qpc = "done"
    /\ expr.t = "Or"
    /\ Len(expr.nodes) = 1
    /\ expr.nodes[1].t = "And"
    /\ \E j \in 1..Len(expr.nodes[1].nodes) : expr.nodes[1].nodes[j].t = "Or"
    /\ Len(out.wire) = 2

\* the literals that occur in an expression
RECURSIVE LiteralsOf(_)
LiteralsOf(n) ==
    IF n.t = "Query" THEN {n}
    ELSE UNION {LiteralsOf(n.nodes[i]) : i \in 1..Len(n.nodes)}

DistinctKeys(n) == \A a, b \in LiteralsOf(n) : a.key = b.key => a = b

\* every And and Or node of the expression has at least one child
RECURSIVE NonEmpty(_)
NonEmpty(n) ==
    \/ n.t = "Query"
    \/ /\ n.nodes # <<>>
       /\ \A i \in 1..Len(n.nodes) : NonEmpty(n.nodes[i])

\* the truth of an expression when the literals of the set true are the true
\* ones
RECURSIVE Holds(_, _)
Holds(n, true) ==
    CASE n.t = "Query" -> n \in true
      [] n.t = "And" -> \A i \in 1..Len(n.nodes) : Holds(n.nodes[i], true)
      [] OTHER -> \E i \in 1..Len(n.nodes) : Holds(n.nodes[i], true)

\* the truth of a wire clause list: clauses OR-ed, keys of a clause AND-ed
WireHolds(wire, true) ==
    \E i \in 1..Len(wire) :
        \A j \in 1..Len(wire[i]) : Query(wire[i][j][1], wire[i][j][2]) \in true

\* C14: normalization preserves meaning: for an expression over literals
\* with distinct keys whose And / Or nodes all have a child, the wire clause
\* list is true under a truth assignment exactly when the expression is.
C14_NormalizationKeepsMeaning ==
    (qpc = "done" /\ DistinctKeys(expr) /\ NonEmpty(expr)) =>
        /\ out.err = "none"
        /\ \A true \in SUBSET Lits : WireHolds(out.wire, true) = Holds(expr, true)

\* C14 witness: a conjunction of a literal with a disjunction on its right,
\* over three keys, serialized into two clauses
C14_Witness ==
    /\ qpc = "done"
    /\ DistinctKeys(expr)
    /\ NonEmpty(expr)
    /\ expr.t = "And"
    /\ Len(expr.nodes) = 2
    /\ expr.nodes[1].t = "Query"
    /\ expr.nodes[2].t = "Or"
    /\ Cardinality(LiteralsOf(expr)) = 3
    /\ Len(out.wire) = 2

(***************************************************************************)
(* Properties of the kinds of failure                                      *)
(***************************************************************************)
\* tree.nodes of a malformed tree: a nested Or has reached the serializer
MalformedNodes ==
    <<[t |-> "Or", key |-> "", value |-> 0, nodes |-> <<LitSeq[1], LitSeq[2]>>]>>

\* how deta_query ends on the malformed tree (InvalidQueryShape)
InvalidQueryShapeKind == DetaLoop(MalformedNodes, <<>>, debug).err

\* how Base.update ends on an Increment of an existing list (TypeMismatch)
TypeMismatchKind ==
    UpdateResult(<<"a">> :> ListV(<<1>>),
                 <<Update("increment", << <<<<"a">>, IntV(1)>> >>)>>, debug).err

\* how Base.update ends on a Delete of an absent top-level key (PathNotFound)
PathNotFoundKind == UpdateResult(EmptyRaw, <<Update("delete", << <<"a">> >>)>>, debug).err

\* the last call was one Increment, Append or Prepend on an existing leaf of
\* another type than the instruction needs
TypeMismatchCase ==
    /\ upd.op = "update"
    /\ upd.res # "TransportError"
    /\ Len(upd.updates) = 1
    /\ upd.updates[1].field \in {"increment", "append", "prepend"}
    /\ upd.updates[1].payload[1][1] \in DOMAIN upd.before
    /\ upd.before[upd.updates[1].payload[1][1]].t #
          (IF upd.updates[1].field = "increment" THEN "int" ELSE "list")

\* the last call was one Delete of a leaf path that does not exist
PathNotFoundCase ==
    /\ upd.op = "update"
    /\ upd.res # "TransportError"
    /\ Len(upd.updates) = 1
    /\ upd.updates[1].field = "delete"
    /\ upd.updates[1].payload[1] \notin DOMAIN upd.before

\* C12: every core failure surfaces, none is swallowed, and the kinds of
\* InvalidQueryShape, TypeMismatch, PathNotFound and TransportError are
\* pairwise distinct: a TypeMismatch or PathNotFound failure of an update
\* ends in an error whose kind is not the kind of any of the other three.
C12_FailureKindsAreDistinct ==
    /\ TypeMismatchCase =>
          upd.res \notin {"ok", InvalidQueryShapeKind, PathNotFoundKind, "TransportError"}
    /\ PathNotFoundCase =>
          upd.res \notin {"ok", InvalidQueryShapeKind, TypeMismatchKind, "TransportError"}

====
